---------------------------- MODULE Spec2Model ----------------------------
(***************************************************************************)
(* Parlanonimo: the ephemeral bubble lifecycle and fanout engine of        *)
(* src/server/index.js (and its two other revisions, src/unnamed/part_000  *)
(* and src/unnamed/part_001).                                              *)
(*                                                                         *)
(* The process is single threaded: a handler runs from one await to the    *)
(* next without interruption.  Every store call goes through the one redis *)
(* client of line 18, which sends commands on one connection and settles   *)
(* their promises in the order the commands were issued.  The model keeps  *)
(* that queue (redisQueue): one step of the model is the store executing   *)
(* the command at the head of the queue and the awaiting handler running   *)
(* on to its next store call, which goes to the tail of the queue.         *)
(***************************************************************************)
EXTENDS Integers, Sequences, FiniteSets, TLC

(***************************************************************************)
(* Bounds of the model                                                     *)
(***************************************************************************)
NumSockets == 2          \* socket.io connections (socket ids 1..NumSockets)
MaxSubmits == 3          \* bubble:create events over one behaviour
MaxReplaySubmits == 2    \* the same, in the behaviours with connections
MaxTicks == 2            \* clock ticks over one behaviour
TickSeconds == 150       \* seconds by which one Tick advances the clock
MaxMs == 1               \* extra milliseconds Date.now() can gain
MaxFails == 1            \* store calls that are rejected over one behaviour
MaxTimerRuns == 1        \* timer callbacks over one behaviour
MaxOld == 10             \* bubbles an earlier run can have left in the store
MaxStale == 2            \* bubble:* keys the store holds when the viewers arrive
MaxDays == 1             \* midnights over one behaviour
MaxJoins == 2            \* admin:join events of one socket
MaxJoinSubmits == 1      \* bubble:create events in the behaviours with admin:join
HISTORY_MAX == 2         \* stands for the 10000 of lTrim (index.js:168)

(***************************************************************************)
(* Program constants                                                       *)
(***************************************************************************)
BUBBLE_TTL == 300
COOLDOWN_TTL == 300
DAILY_TTL == 172800
ADMIN_PASSWORD == "parlanonimo2026"
NAME_MAX == 20
TEXT_MAX == 280
LAT_MIN == -90
LAT_MAX == 90
LNG_MIN == -180
LNG_MAX == 180
LOW_WATER == 6
START_MIN == 8
BATCH_MIN == 8
BATCH_SPAN == 5
SEED_TTL_MIN == 120
SEED_TTL_SPAN == 180
START_MIN_B == 10
INITIAL_MIN_B == 15
INITIAL_SPAN_B == 6
TOPUP_MIN_B == 5
TOPUP_SPAN_B == 4
SEED_TTL_MIN_B == 180
SEED_TTL_SPAN_B == 300

Sockets == 1..NumSockets
Subs == 1..MaxSubmits

(***************************************************************************)
(* JavaScript values.  A string is the sequence of its characters.         *)
(***************************************************************************)
Num(n) == [k |-> "num", n |-> n, s |-> <<>>]
NaN == [k |-> "nan", n |-> 0, s |-> <<>>]
Str(s) == [k |-> "str", n |-> 0, s |-> s]
Null == [k |-> "null", n |-> 0, s |-> <<>>]
Undefined == [k |-> "undef", n |-> 0, s |-> <<>>]

Digits == <<"0", "1", "2", "3", "4", "5", "6", "7", "8", "9">>
IsDigit(c) == \E i \in 1..10 : Digits[i] = c
DigitVal(c) == (CHOOSE i \in 1..10 : Digits[i] = c) - 1

\* !v
Falsy(v) ==
    \/ v.k \in {"null", "undef", "nan"}
    \/ v.k = "num" /\ v.n = 0
    \/ v.k = "str" /\ v.s = <<>>

\* v == null
LooseNull(v) == v.k \in {"null", "undef"}

RECURSIVE TrimLeft(_)
TrimLeft(s) == IF s # <<>> /\ Head(s) = " " THEN TrimLeft(Tail(s)) ELSE s

RECURSIVE TrimRight(_)
TrimRight(s) ==
    IF s # <<>> /\ s[Len(s)] = " " THEN TrimRight(SubSeq(s, 1, Len(s) - 1)) ELSE s

\* String.prototype.trim
Trim(s) == TrimRight(TrimLeft(s))

\* String.prototype.substring(0, n)
Substring0(s, n) == SubSeq(s, 1, IF Len(s) < n THEN Len(s) ELSE n)

RECURSIVE DigitsValue(_)
DigitsValue(s) ==
    IF s = <<>> THEN 0 ELSE 10 * DigitsValue(SubSeq(s, 1, Len(s) - 1)) + DigitVal(s[Len(s)])

AllDigits(s) == s # <<>> /\ \A i \in 1..Len(s) : IsDigit(s[i])

\* Number(<string>): blank is 0, an optionally signed run of digits is its
\* value, anything else is NaN
StringToNumber(s) ==
    LET t == Trim(s) IN
    IF t = <<>> THEN Num(0)
    ELSE IF AllDigits(t) THEN Num(DigitsValue(t))
    ELSE IF Head(t) = "-" /\ AllDigits(Tail(t)) THEN Num(0 - DigitsValue(Tail(t)))
    ELSE IF Head(t) = "+" /\ AllDigits(Tail(t)) THEN Num(DigitsValue(Tail(t)))
    ELSE NaN

\* Number(v)
ToNumber(v) ==
    CASE v.k = "num" -> v
      [] v.k = "nan" -> NaN
      [] v.k = "str" -> StringToNumber(v.s)
      [] v.k = "null" -> Num(0)
      [] OTHER -> NaN

RECURSIVE NatToString(_)
NatToString(n) ==
    IF n < 10 THEN <<Digits[n + 1]>>
    ELSE NatToString(n \div 10) \o <<Digits[(n % 10) + 1]>>

\* String(v)
JsString(v) ==
    CASE v.k = "str" -> v.s
      [] v.k = "num" -> IF v.n < 0 THEN <<"-">> \o NatToString(0 - v.n) ELSE NatToString(v.n)
      [] v.k = "nan" -> <<"N", "a", "N">>
      [] v.k = "null" -> <<"n", "u", "l", "l">>
      [] OTHER -> <<"u", "n", "d", "e", "f", "i", "n", "e", "d">>

\* a < b and a > b on numbers: every comparison with NaN is false
JsLt(a, b) == a.k = "num" /\ b.k = "num" /\ a.n < b.n
JsGt(a, b) == a.k = "num" /\ b.k = "num" /\ a.n > b.n

\* JSON.stringify of a number: NaN is written as null
JsonNumber(v) == IF v.k = "nan" THEN Null ELSE v

(***************************************************************************)
(* The payloads of bubble:create the model submits                         *)
(***************************************************************************)
Data(name, text, x, y, type) ==
    [nul |-> FALSE, name |-> name, text |-> text, x |-> x, y |-> y, type |-> type]

NoData == [nul |-> TRUE, name |-> Undefined, text |-> Undefined,
           x |-> Undefined, y |-> Undefined, type |-> Undefined]

Thought == <<"t", "h", "o", "u", "g", "h", "t">>

LongName == <<" ", "A", "n", "o", "n", "y", "m", "o", "u", "s", " ",
              "o", "f", " ", "M", "i", "l", "a", "n", " ", "x", "y">>

cEdge == Data(Str(LongName), Str(<<"h", "i", " ">>), Str(<<"-", "9", "0">>), Num(180), Str(Thought))
cNotNumber == Data(Str(<<"A">>), Str(<<"h", "i">>), Str(<<"a", "b", "c">>), Num(0), Str(<<"s", "a", "y">>))
cLatHigh == Data(Str(<<"A">>), Str(<<"h", "i">>), Num(95), Num(0), Str(<<"s", "p", "e", "e", "c", "h">>))
cLngLow == Data(Str(<<"A">>), Str(<<"h", "i">>), Num(0), Str(<<"-", "1", "8", "1">>), Undefined)
cNoName == Data(Str(<<>>), Str(<<"h", "i">>), Num(48), Num(2), Undefined)
cNoX == Data(Str(<<"A">>), Str(<<"h", "i">>), Null, Num(2), Undefined)

ReplayCandidates == {cEdge}
ClockCandidates == {cEdge, cLatHigh, cNoX}

Candidates == {cEdge, cNotNumber, cLatHigh, cLngLow, cNoName, cNoX, NoData}

(***************************************************************************)
(* State                                                                   *)
(***************************************************************************)
VARIABLES
    \* the store
    bubbleKeys,      \* bubble:<id> keys: id -> [val, exp]
    cooldownKeys,    \* cooldown:<ip> keys: ip -> expiry time, 0 when absent
    history,         \* history:messages
    totalMessages,   \* stats:total_messages
    daily,           \* stats:today:<date> keys: date -> [n, exp] (exp -1: no TTL)
    peakStored,      \* stats:peak_users
    \* the process
    redisQueue,      \* commands issued and not yet answered, oldest first
    sub,             \* the bubble:create handler invocations
    nextSub,         \* bubble:create events so far
    conn,            \* the connections (sockets)
    connectedUsers,
    peakUsers,
    variant,         \* the revision of the seed scheduler that runs
    seedRun,         \* seedMessages (run 0) and the timer callbacks (runs 1..)
    timerOn,         \* setInterval has been called
    crashed,         \* a rejection was left unhandled
    \* the environment
    now,             \* clock of the store and the process, in seconds
    ms,              \* milliseconds Date.now() has gained on top of now
    day,             \* the calendar date getTodayKey() sees
    fails,           \* store calls rejected so far
    \* what the viewers were sent
    acceptLog,       \* the bubbles written by line 162, in order
    pushLog,         \* the entries appended by line 166, in order
    broadcastLog,    \* the bubbles of real submissions sent as bubble:new, in order
    recvNew,         \* per socket: ids of the bubbles received as bubble:new
    recvExisting,    \* per socket: [id, remainingMs] received as bubble:existing
    replies,         \* the events the handlers sent with socket.emit: [h, to, ev, msg]
    adminRoom,       \* the sockets that joined 'admin-room'
    recvAdmin,       \* per socket: ids of the bubbles received as admin:newMessage
    joinLog,         \* per socket: the passwords of its admin:join events, in order
    joined,          \* per socket: the success flags of the admin:joined it received
    recvUserCount,   \* per socket: the counts received as admin:userCount
    plants,          \* the calls of plantBatch: who called, the count it had read
    afterPlant       \* the completed calls of plantBatch: the live keys then

storeVars == <<bubbleKeys, cooldownKeys, history, totalMessages, daily, peakStored>>
procVars == <<redisQueue, sub, nextSub, conn, connectedUsers, peakUsers>>
seedVars == <<variant, seedRun, timerOn, crashed, plants, afterPlant>>
envVars == <<now, ms, day, fails>>
logVars == <<acceptLog, pushLog>>
sentVars == <<broadcastLog, recvNew, recvExisting>>
feedVars == <<replies, adminRoom, recvAdmin>>
adminVars == <<joinLog, joined, recvUserCount>>
vars == <<storeVars, procVars, seedVars, envVars, logVars, sentVars, feedVars, adminVars>>

\* socket.handshake.headers['x-forwarded-for'] || socket.handshake.address:
\* socket 1 comes from one address, every other socket from a second one
UserIP(v) == IF v <= 1 THEN 1 ELSE 2

IPs == {UserIP(v) : v \in Sockets}

\* Date.now(), in milliseconds
DateNow(m) == now * 1000 + m

\* getTodayKey()
GetTodayKey == day

\* redis TTL: -2 for a key that is gone, -1 for one without expiry
Ttl(exp) == IF exp = -1 THEN -1 ELSE IF exp > now THEN exp - now ELSE -2

\* a read of the marker that always finds none
CooldownGetNone(ip) == FALSE

\* redis GET cooldown:<ip>: the marker, or null once it has expired
CooldownGet(ip) == cooldownKeys[ip] > now

\* the seconds since the marker was set, where it is live
CooldownElapsed(ip) ==
    IF cooldownKeys[ip] = 0 THEN -2 ELSE COOLDOWN_TTL - Ttl(cooldownKeys[ip])

\* redis TTL cooldown:<ip>
CooldownTtl(ip) == IF cooldownKeys[ip] = 0 THEN -2 ELSE Ttl(cooldownKeys[ip])

\* redis LTRIM list 0 n-1: the first n entries stay
LTrimFirst(list, n) ==
    IF Len(list) <= n THEN list ELSE SubSeq(list, 1, n)

\* redis LTRIM list -n -1: the last n entries stay
LTrimLast(list, n) ==
    IF Len(list) <= n THEN list ELSE SubSeq(list, Len(list) - n + 1, Len(list))

\* redis INCR on a daily counter: a missing key is created without expiry
IncrDaily(key) ==
    IF key \in DOMAIN daily
    THEN [daily EXCEPT ![key].n = @ + 1]
    ELSE (key :> [n |-> 1, exp |-> -1]) @@ daily

\* redis EXPIRE on a daily counter: no effect on a missing key
ExpireDaily(key, secs) ==
    IF key \in DOMAIN daily THEN [daily EXCEPT ![key].exp = now + secs] ELSE daily

(***************************************************************************)
(* bubble:create (index.js 130-186)                                        *)
(***************************************************************************)
NoBubble == [id |-> <<0, 0>>, name |-> <<>>, text |-> <<>>, x |-> NaN, y |-> NaN,
             type |-> "", createdAt |-> 0]

IdleSub == [pc |-> "idle", sock |-> 0, data |-> NoData, bubble |-> NoBubble,
            key |-> 0, outcome |-> "none", remaining |-> 0]

\* the handler has returned: what it answered is kept, its locals are gone
Returned(h, outcome, remaining) ==
    [IdleSub EXCEPT !.pc = "done", !.sock = sub[h].sock, !.outcome = outcome,
                    !.remaining = remaining]

\* line 132
MissingFields(data) ==
    \/ data.nul
    \/ Falsy(data.name)
    \/ Falsy(data.text)
    \/ LooseNull(data.x)
    \/ LooseNull(data.y)

\* the check of line 147 without its two comparisons of lng
InvalidCoordinatesLatOnly(lat, lng) ==
    \/ JsLt(lat, Num(LAT_MIN))
    \/ JsGt(lat, Num(LAT_MAX))

\* line 147
InvalidCoordinates(lat, lng) ==
    \/ JsLt(lat, Num(LAT_MIN))
    \/ JsGt(lat, Num(LAT_MAX))
    \/ JsLt(lng, Num(LNG_MIN))
    \/ JsGt(lng, Num(LNG_MAX))

\* lines 152-160
NewBubble(v, data, lat, lng, t) ==
    [id |-> <<v, t>>,
     name |-> Trim(Substring0(JsString(data.name), NAME_MAX)),
     text |-> Trim(Substring0(JsString(data.text), TEXT_MAX)),
     x |-> lat,
     y |-> lng,
     type |-> IF data.type = Str(Thought) THEN "thought" ELSE "speech",
     createdAt |-> t]

\* JSON.stringify(bubble)
JsonStringify(b) == [b EXCEPT !.x = JsonNumber(@), !.y = JsonNumber(@)]

\* a stored value that is not JSON text
Garbled == [NoBubble EXCEPT !.type = "garbled"]

\* JSON.parse(data) returns, where it does not throw a SyntaxError
Decodes(j) == j # Garbled

\* JSON.parse of a stored bubble
JsonParse(j) == j

\* the bubble with remainingMs set, as it is emitted
WithRemaining(b, remainingMs) ==
    [id |-> b.id, name |-> b.name, text |-> b.text, x |-> b.x, y |-> b.y,
     type |-> b.type, createdAt |-> b.createdAt, remainingMs |-> remainingMs]

\* io.emit: every socket that is connected receives the event
IoEmitNew(id) ==
    recvNew' = [v \in Sockets |-> IF conn[v].open THEN recvNew[v] \cup {id} ELSE recvNew[v]]

\* io.to('admin-room').emit('admin:newMessage', bubble): line 179
AdminEmitNew(id) ==
    recvAdmin' = [v \in Sockets |->
                    IF v \in adminRoom /\ conn[v].open THEN recvAdmin[v] \cup {id}
                    ELSE recvAdmin[v]]

\* io.to('admin-room').emit('admin:userCount', connectedUsers): lines 103 and
\* 191, after the count and the room have changed
AdminEmitUserCount ==
    recvUserCount' = [w \in Sockets |->
                        IF w \in adminRoom' /\ conn'[w].open
                        THEN recvUserCount[w] \cup {connectedUsers'}
                        ELSE recvUserCount[w]]

\* io.emit(ev, ...) of handler h: every socket is sent the event
IoEmitReply(h, v, ev, msg) ==
    replies' = replies \cup {[h |-> h, to |-> w, ev |-> ev, msg |-> msg] : w \in Sockets}

\* socket.emit(ev, ...) of handler h on socket v
SocketEmit(h, v, ev, msg) ==
    replies' = replies \cup {[h |-> h, to |-> v, ev |-> ev, msg |-> msg]}

SubCmd(h) == [k |-> "sub", h |-> h]
AtHead(cmd) == redisQueue # <<>> /\ Head(redisQueue) = cmd

\* the handler answered and issued its next store call
Reissue(cmd) == redisQueue' = Append(Tail(redisQueue), cmd)
\* the handler answered and returned
Answered == redisQueue' = Tail(redisQueue)

\* the event arrives: lines 131-138, up to the first await
SubmitUpTo(v, data, max) ==
    /\ nextSub < max
    /\ conn[v].open /\ conn[v].pc = "ready"
    /\ nextSub' = nextSub + 1
    /\ IF MissingFields(data)
       THEN /\ sub' = [sub EXCEPT ![nextSub + 1] =
                        [IdleSub EXCEPT !.pc = "done", !.sock = v, !.outcome = "missing"]]
            /\ SocketEmit(nextSub + 1, v, "bubble:error", "Missing fields.")
            /\ UNCHANGED redisQueue
       ELSE /\ sub' = [sub EXCEPT ![nextSub + 1] =
                        [IdleSub EXCEPT !.pc = "get", !.sock = v, !.data = data]]
            /\ redisQueue' = Append(redisQueue, SubCmd(nextSub + 1))
            /\ UNCHANGED replies
    /\ UNCHANGED <<storeVars, conn, connectedUsers, peakUsers, envVars, sentVars, logVars, seedVars,
                   adminRoom, recvAdmin, adminVars>>

\* bubble:create arrives while the replay of lines 105-118 is still awaited:
\* the listener of line 130 is not registered yet and nothing hears the event
SubmitEarly(v, max) ==
    /\ nextSub < max
    /\ conn[v].open /\ conn[v].pc \in {"keys", "get", "ttl"}
    /\ nextSub' = nextSub + 1
    /\ sub' = [sub EXCEPT ![nextSub + 1] =
                 [IdleSub EXCEPT !.pc = "done", !.sock = v, !.outcome = "unheard"]]
    /\ UNCHANGED <<storeVars, redisQueue, conn, connectedUsers, peakUsers, envVars, sentVars,
                   logVars, seedVars, feedVars, adminVars>>

\* a rejection that arms the cooldown marker before it returns
RejectCoordsArmed(h) ==
    /\ sub' = [sub EXCEPT ![h] = Returned(h, "coords", 0)]
    /\ Answered
    /\ cooldownKeys' = [cooldownKeys EXCEPT ![UserIP(sub[h].sock)] = now + COOLDOWN_TTL]
    /\ SocketEmit(h, sub[h].sock, "bubble:error", "Invalid coordinates.")
    /\ UNCHANGED <<ms, bubbleKeys, history, totalMessages, daily, peakStored>>

\* lines 148-149: bubble:error 'Invalid coordinates.' and return
RejectCoords(h) ==
    /\ sub' = [sub EXCEPT ![h] = Returned(h, "coords", 0)]
    /\ Answered
    /\ SocketEmit(h, sub[h].sock, "bubble:error", "Invalid coordinates.")
    /\ UNCHANGED <<ms, storeVars>>

\* redis.get(cooldownKey) answers: lines 138-162, up to the next await.
\* Date.now() reads the millisecond of the last reading or a later one.
SubGetWithin(h, msLimit) ==
    /\ AtHead(SubCmd(h)) /\ sub[h].pc = "get"
    /\ LET lat == ToNumber(sub[h].data.x)
           lng == ToNumber(sub[h].data.y)
       IN  IF CooldownGet(UserIP(sub[h].sock))
           THEN /\ sub' = [sub EXCEPT ![h].pc = "ttl"]
                /\ Reissue(SubCmd(h))
                /\ UNCHANGED <<ms, storeVars, replies>>
           ELSE IF InvalidCoordinates(lat, lng)
           THEN RejectCoords(h)
           ELSE /\ \E m \in ms..msLimit :
                     /\ ms' = m
                     /\ sub' = [sub EXCEPT ![h].pc = "setBubble",
                                  ![h].bubble = NewBubble(sub[h].sock, sub[h].data, lat, lng, DateNow(m))]
                /\ Reissue(SubCmd(h))
                /\ UNCHANGED <<storeVars, replies>>
    /\ UNCHANGED <<nextSub, conn, connectedUsers, peakUsers, now, day, fails, logVars, sentVars, seedVars,
                   adminRoom, recvAdmin, adminVars>>

Submit(v, data) == SubmitUpTo(v, data, MaxSubmits)

SubGet(h) == SubGetWithin(h, MaxMs)

\* the same, Date.now() staying in the millisecond of the last reading
SubGetSameMs(h) == SubGetWithin(h, ms)

\* redis.ttl(cooldownKey) answers: lines 140-142
SubTtl(h) ==
    /\ AtHead(SubCmd(h)) /\ sub[h].pc = "ttl"
    /\ sub' = [sub EXCEPT ![h] = Returned(h, "cooldown", CooldownTtl(UserIP(sub[h].sock)))]
    /\ Answered
    /\ SocketEmit(h, sub[h].sock, "bubble:cooldown", "")
    /\ UNCHANGED <<storeVars, nextSub, conn, connectedUsers, peakUsers, envVars, sentVars, logVars, seedVars,
                   adminRoom, recvAdmin, adminVars>>

\* redis.setEx('bubble:' + id, BUBBLE_TTL, ...) is executed: line 162
SubSetExBubble(h) ==
    /\ AtHead(SubCmd(h)) /\ sub[h].pc = "setBubble"
    /\ bubbleKeys' = (sub[h].bubble.id :>
                        [val |-> JsonStringify(sub[h].bubble), exp |-> now + BUBBLE_TTL])
                     @@ bubbleKeys
    /\ sub' = [sub EXCEPT ![h].pc = "setCooldown"]
    /\ acceptLog' = Append(acceptLog, JsonStringify(sub[h].bubble))
    /\ Reissue(SubCmd(h))
    /\ UNCHANGED <<cooldownKeys, history, totalMessages, daily, peakStored,
                   nextSub, conn, connectedUsers, peakUsers, envVars, sentVars, pushLog, seedVars, feedVars, adminVars>>

\* redis.setEx(cooldownKey, COOLDOWN_TTL, '1') is executed: line 163
SubSetExCooldown(h) ==
    /\ AtHead(SubCmd(h)) /\ sub[h].pc = "setCooldown"
    /\ cooldownKeys' = [cooldownKeys EXCEPT ![UserIP(sub[h].sock)] = now + COOLDOWN_TTL]
    /\ sub' = [sub EXCEPT ![h].pc = "rPush"]
    /\ Reissue(SubCmd(h))
    /\ UNCHANGED <<bubbleKeys, history, totalMessages, daily, peakStored,
                   nextSub, conn, connectedUsers, peakUsers, envVars, sentVars, logVars, seedVars, feedVars, adminVars>>

\* redis.rPush('history:messages', ...) is executed: line 166
SubRPush(h) ==
    /\ AtHead(SubCmd(h)) /\ sub[h].pc = "rPush"
    /\ history' = Append(history, JsonStringify(sub[h].bubble))
    /\ sub' = [sub EXCEPT ![h].pc = "lTrim"]
    /\ pushLog' = Append(pushLog, JsonStringify(sub[h].bubble))
    /\ Reissue(SubCmd(h))
    /\ UNCHANGED <<bubbleKeys, cooldownKeys, totalMessages, daily, peakStored,
                   nextSub, conn, connectedUsers, peakUsers, envVars, sentVars, acceptLog, seedVars, feedVars, adminVars>>

\* redis.lTrim('history:messages', -10000, -1) is executed: line 168
SubLTrim(h) ==
    /\ AtHead(SubCmd(h)) /\ sub[h].pc = "lTrim"
    /\ history' = LTrimLast(history, HISTORY_MAX)
    /\ sub' = [sub EXCEPT ![h].pc = "incrTotal"]
    /\ Reissue(SubCmd(h))
    /\ UNCHANGED <<bubbleKeys, cooldownKeys, totalMessages, daily, peakStored,
                   nextSub, conn, connectedUsers, peakUsers, envVars, sentVars, logVars, seedVars, feedVars, adminVars>>

\* redis.incr('stats:total_messages') is executed: line 170; the key of
\* line 171 is computed when that call is issued
SubIncrTotal(h) ==
    /\ AtHead(SubCmd(h)) /\ sub[h].pc = "incrTotal"
    /\ totalMessages' = totalMessages + 1
    /\ sub' = [sub EXCEPT ![h].pc = "incrToday", ![h].key = GetTodayKey]
    /\ Reissue(SubCmd(h))
    /\ UNCHANGED <<bubbleKeys, cooldownKeys, history, daily, peakStored,
                   nextSub, conn, connectedUsers, peakUsers, envVars, sentVars, logVars, seedVars, feedVars, adminVars>>

\* redis.incr('stats:today:' + ...) is executed: line 171; the key of line
\* 173 is computed when that call is issued
SubIncrToday(h) ==
    /\ AtHead(SubCmd(h)) /\ sub[h].pc = "incrToday"
    /\ daily' = IncrDaily(sub[h].key)
    /\ sub' = [sub EXCEPT ![h].pc = "expire", ![h].key = GetTodayKey]
    /\ Reissue(SubCmd(h))
    /\ UNCHANGED <<bubbleKeys, cooldownKeys, history, totalMessages, peakStored,
                   nextSub, conn, connectedUsers, peakUsers, envVars, sentVars, logVars, seedVars, feedVars, adminVars>>

\* redis.expire('stats:today:' + ..., 172800) is executed, and the bubble is
\* broadcast: lines 173-181
SubExpire(h) ==
    /\ AtHead(SubCmd(h)) /\ sub[h].pc = "expire"
    /\ daily' = ExpireDaily(sub[h].key, DAILY_TTL)
    /\ sub' = [sub EXCEPT ![h] = Returned(h, "new", 0)]
    /\ Answered
    /\ broadcastLog' = Append(broadcastLog, WithRemaining(sub[h].bubble, BUBBLE_TTL * 1000))
    /\ IoEmitNew(sub[h].bubble.id)
    /\ AdminEmitNew(sub[h].bubble.id)
    /\ UNCHANGED <<bubbleKeys, cooldownKeys, history, totalMessages, peakStored,
                   nextSub, conn, connectedUsers, peakUsers, envVars, recvExisting, logVars, seedVars,
                   replies, adminRoom, adminVars>>

\* the store call the handler awaits is rejected: lines 182-185
SubFail(h) ==
    /\ AtHead(SubCmd(h)) /\ sub[h].pc \notin {"idle", "done"}
    /\ fails < MaxFails
    /\ fails' = fails + 1
    /\ sub' = [sub EXCEPT ![h] = Returned(h, "failed", 0)]
    /\ Answered
    /\ SocketEmit(h, sub[h].sock, "bubble:error", "Something went wrong.")
    /\ UNCHANGED <<storeVars, nextSub, conn, connectedUsers, peakUsers, now, ms, day, sentVars, logVars, seedVars,
                   adminRoom, recvAdmin, adminVars>>

(***************************************************************************)
(* io.on('connection') (index.js 94-128) and 'disconnect' (188-192)        *)
(***************************************************************************)
NewConn == [pc |-> "new", open |-> FALSE, todo |-> {}, key |-> <<0, 0>>, val |-> NoBubble,
            atConnect |-> {}, keys |-> {}, disturbed |-> FALSE]

ReadyConn == [NewConn EXCEPT !.pc = "ready", !.open = TRUE]

ConnCmd(v) == [k |-> "conn", h |-> v]
PeakCmd(n) == [k |-> "peak", h |-> n]

\* io.emit('bubble:existing', bubble): every connected socket receives it
IoEmitExisting(v, c, remainingMs) ==
    recvExisting' = [w \in Sockets |->
                        IF conn[w].open /\ (w # v \/ c.open)
                        THEN recvExisting[w] \cup {[id |-> c.val.id, remainingMs |-> remainingMs]}
                        ELSE recvExisting[w]]

\* socket.emit('bubble:existing', bubble): nothing arrives on a closed socket
SocketEmitExisting(v, c, remainingMs) ==
    recvExisting' = [recvExisting EXCEPT ![v] =
                        IF c.open THEN @ \cup {[id |-> c.val.id, remainingMs |-> remainingMs]}
                        ELSE @]

\* the for loop of lines 107-115 moves on: the next redis.get is issued, or
\* the loop is over and the handlers of lines 121-192 are registered
ReplayNext(v, c) ==
    IF c.todo = {}
    THEN /\ conn' = [conn EXCEPT ![v] = [c EXCEPT !.pc = "ready"]]
         /\ Answered
    ELSE /\ \E key \in c.todo :
              conn' = [conn EXCEPT ![v] = [c EXCEPT !.pc = "get", !.key = key,
                                                   !.todo = c.todo \ {key}]]
         /\ Reissue(ConnCmd(v))

\* a socket connects: lines 95-106, up to the first await
Connect(v) ==
    /\ conn[v].pc = "new"
    /\ connectedUsers' = connectedUsers + 1
    /\ IF connectedUsers + 1 > peakUsers
       THEN /\ peakUsers' = connectedUsers + 1
            /\ redisQueue' = redisQueue \o <<PeakCmd(connectedUsers + 1), ConnCmd(v)>>
       ELSE /\ UNCHANGED peakUsers
            /\ redisQueue' = Append(redisQueue, ConnCmd(v))
    /\ conn' = [conn EXCEPT ![v] = [NewConn EXCEPT !.pc = "keys", !.open = TRUE,
                                                   !.atConnect = DOMAIN bubbleKeys]]
    /\ UNCHANGED <<storeVars, sub, nextSub, envVars, logVars, sentVars, seedVars, feedVars,
                   joinLog, joined>>
    /\ AdminEmitUserCount

\* redis.set('stats:peak_users', ...) of line 98 is executed; nothing awaits it
PeakSet ==
    /\ redisQueue # <<>> /\ Head(redisQueue).k = "peak"
    /\ peakStored' = Head(redisQueue).h
    /\ Answered
    /\ UNCHANGED <<bubbleKeys, cooldownKeys, history, totalMessages, daily,
                   sub, nextSub, conn, connectedUsers, peakUsers, envVars, logVars, sentVars, seedVars, feedVars, adminVars>>

\* it is rejected: .catch(() => {})
PeakFail ==
    /\ redisQueue # <<>> /\ Head(redisQueue).k = "peak"
    /\ fails < MaxFails
    /\ fails' = fails + 1
    /\ Answered
    /\ UNCHANGED <<storeVars, sub, nextSub, conn, connectedUsers, peakUsers,
                   now, ms, day, logVars, sentVars, seedVars, feedVars, adminVars>>

\* redis.keys('bubble:*') answers: line 106
ConnKeys(v) ==
    /\ AtHead(ConnCmd(v)) /\ conn[v].pc = "keys"
    /\ ReplayNext(v, [conn[v] EXCEPT !.todo = DOMAIN bubbleKeys, !.keys = DOMAIN bubbleKeys])
    /\ UNCHANGED <<storeVars, sub, nextSub, connectedUsers, peakUsers, envVars, logVars, sentVars, seedVars, feedVars, adminVars>>

\* redis.get(key) answers: lines 108-111
ConnGet(v) ==
    /\ AtHead(ConnCmd(v)) /\ conn[v].pc = "get"
    /\ IF conn[v].key \notin DOMAIN bubbleKeys
       THEN ReplayNext(v, conn[v])
       ELSE IF Decodes(bubbleKeys[conn[v].key].val)
       THEN /\ conn' = [conn EXCEPT ![v].pc = "ttl",
                                    ![v].val = JsonParse(bubbleKeys[conn[v].key].val)]
            /\ Reissue(ConnCmd(v))
       ELSE \* JSON.parse throws: the catch of lines 116-118 ends the replay
            /\ conn' = [conn EXCEPT ![v].pc = "ready", ![v].todo = {}, ![v].key = <<0, 0>>,
                                    ![v].disturbed = TRUE]
            /\ Answered
    /\ UNCHANGED <<storeVars, sub, nextSub, connectedUsers, peakUsers, envVars, logVars, sentVars, seedVars, feedVars, adminVars>>

\* redis.ttl(key) answers: lines 111-113
ConnTtl(v) ==
    /\ AtHead(ConnCmd(v)) /\ conn[v].pc = "ttl"
    /\ LET ttl == IF conn[v].key \in DOMAIN bubbleKeys
                  THEN Ttl(bubbleKeys[conn[v].key].exp) ELSE -2
       IN  SocketEmitExisting(v, conn[v], ttl * 1000)
    /\ ReplayNext(v, [conn[v] EXCEPT !.val = NoBubble, !.key = <<0, 0>>])
    /\ UNCHANGED <<storeVars, sub, nextSub, connectedUsers, peakUsers, envVars, logVars,
                   broadcastLog, recvNew, seedVars, feedVars, adminVars>>

\* a store call of the replay is rejected: lines 116-118
ConnFail(v) ==
    /\ AtHead(ConnCmd(v)) /\ conn[v].pc \in {"keys", "get", "ttl"}
    /\ fails < MaxFails
    /\ fails' = fails + 1
    /\ conn' = [conn EXCEPT ![v].pc = "ready", ![v].todo = {}, ![v].val = NoBubble,
                            ![v].key = <<0, 0>>, ![v].disturbed = TRUE]
    /\ Answered
    /\ UNCHANGED <<storeVars, sub, nextSub, connectedUsers, peakUsers, now, ms, day,
                   logVars, sentVars, seedVars, feedVars, adminVars>>

\* the socket closes; lines 188-192 run if the replay is over and they were
\* registered
Disconnect(v) ==
    /\ conn[v].open
    /\ conn' = [conn EXCEPT ![v].open = FALSE]
    /\ connectedUsers' = IF conn[v].pc = "ready" THEN connectedUsers - 1 ELSE connectedUsers
    /\ adminRoom' = adminRoom \ {v}
    /\ IF conn[v].pc = "ready" THEN AdminEmitUserCount ELSE UNCHANGED recvUserCount
    /\ UNCHANGED <<storeVars, redisQueue, sub, nextSub, peakUsers, envVars, logVars, sentVars, seedVars,
                   replies, recvAdmin, joinLog, joined>>

\* the passwords a viewer sends with admin:join
Passwords == {ADMIN_PASSWORD, "guess"}

\* socket.emit('admin:joined', { success: ... }): lines 124 and 126
SocketEmitJoined(v, success) == joined' = [joined EXCEPT ![v] = Append(@, success)]

\* admin:join arrives: lines 121-128
AdminJoinUpTo(v, password, max) ==
    /\ conn[v].open /\ conn[v].pc = "ready"
    /\ Len(joinLog[v]) < max
    /\ joinLog' = [joinLog EXCEPT ![v] = Append(@, password)]
    /\ IF password = ADMIN_PASSWORD
       THEN /\ adminRoom' = adminRoom \cup {v}
            /\ SocketEmitJoined(v, TRUE)
       ELSE /\ UNCHANGED adminRoom
            /\ SocketEmitJoined(v, FALSE)
    /\ UNCHANGED <<storeVars, procVars, seedVars, envVars, logVars, sentVars, replies, recvAdmin,
                   recvUserCount>>

\* admin:join arrives while the replay of lines 105-118 is still awaited:
\* the listener of line 121 is not registered yet and nothing hears the event
AdminJoinEarly(v, password, max) ==
    /\ conn[v].open /\ conn[v].pc \in {"keys", "get", "ttl"}
    /\ Len(joinLog[v]) < max
    /\ joinLog' = [joinLog EXCEPT ![v] = Append(@, password)]
    /\ UNCHANGED <<storeVars, procVars, seedVars, envVars, logVars, sentVars, feedVars,
                   joined, recvUserCount>>

\* a viewer joins the admin room, once, with the right password
AdminJoin(v) == AdminJoinUpTo(v, ADMIN_PASSWORD, 1)

(***************************************************************************)
(* The seed scheduler: seedMessages and plantBatch of index.js 242-293     *)
(* (variant "index") and of part_000 266-319 (variant "part000")           *)
(***************************************************************************)
Variants == {"index", "part000"}
Runs == 0..MaxTimerRuns

IdleRun == [pc |-> "idle", left |-> 0, size |-> 0, read |-> 0, clean |-> TRUE]

SeedCmd(r) == [k |-> "seed", h |-> r]

\* index.js 246, part_000 269: the startup check skips the batch
StartupSkips(n) == IF variant = "index" THEN n >= START_MIN ELSE n >= START_MIN_B

\* a timer check that plants at the mark too
TimerPlantsAtMark(n) == n <= LOW_WATER

\* index.js 255, part_000 279: the timer check plants a batch
TimerPlants(n) == n < LOW_WATER

\* index.js 267, part_000 294: the sizes a batch can have
BatchSizes(isInitial) ==
    IF variant = "index" THEN BATCH_MIN..(BATCH_MIN + BATCH_SPAN - 1)
    ELSE IF isInitial THEN INITIAL_MIN_B..(INITIAL_MIN_B + INITIAL_SPAN_B - 1)
    ELSE TOPUP_MIN_B..(TOPUP_MIN_B + TOPUP_SPAN_B - 1)

\* index.js 285, part_000 312: the shortest and the longest TTL of a seed
SeedTtls ==
    IF variant = "index" THEN {SEED_TTL_MIN, SEED_TTL_MIN + SEED_TTL_SPAN - 1}
    ELSE {SEED_TTL_MIN_B, SEED_TTL_MIN_B + SEED_TTL_SPAN_B - 1}

\* 'seed-' + Date.now() + '-' + <six random characters>: a fresh name.  The
\* model names the seeds that expire together 1, 2, ... in the order written.
SeedId(exp) ==
    <<0, exp * 100 + Cardinality({i \in DOMAIN bubbleKeys : i[1] = 0 /\ bubbleKeys[i].exp = exp}) + 1>>

\* index.js 274-282: one entry of seedData stands for all of them, the
\* jitter of its coordinates left out
SeedBubble(id) ==
    [id |-> id, name |-> <<"F", "l", "a", "n", "e", "u", "r">>, text |-> <<"L", "a">>,
     x |-> Num(48), y |-> Num(2), type |-> "speech", createdAt |-> DateNow(ms)]

\* plantBatch is called: lines 266-286, up to the first await
BeginPlant(r, isInitial, n) ==
    /\ \E count \in BatchSizes(isInitial) :
          seedRun' = [seedRun EXCEPT ![r] = [pc |-> "plant", left |-> count, size |-> count,
                                             read |-> n, clean |-> TRUE]]
    /\ plants' = plants \cup {[by |-> IF r = 0 THEN "startup" ELSE "timer", read |-> n]}
    /\ Reissue(SeedCmd(r))

\* server.listen's callback calls seedMessages: lines 242-245
SeedStart ==
    /\ ~crashed
    /\ seedRun[0].pc = "idle"
    /\ seedRun' = [seedRun EXCEPT ![0].pc = "keys"]
    /\ redisQueue' = Append(redisQueue, SeedCmd(0))
    /\ UNCHANGED <<storeVars, sub, nextSub, conn, connectedUsers, peakUsers, variant,
                   timerOn, crashed, plants, afterPlant, envVars, logVars, sentVars, feedVars, adminVars>>

\* the timer fires: the callback of lines 253-254
TimerFire(r) ==
    /\ ~crashed
    /\ timerOn
    /\ r > 0 /\ seedRun[r].pc = "idle" /\ \A q \in 1..(r - 1) : seedRun[q].pc # "idle"
    /\ seedRun' = [seedRun EXCEPT ![r].pc = "keys"]
    /\ redisQueue' = Append(redisQueue, SeedCmd(r))
    /\ UNCHANGED <<storeVars, sub, nextSub, conn, connectedUsers, peakUsers, variant,
                   timerOn, crashed, plants, afterPlant, envVars, logVars, sentVars, feedVars, adminVars>>

\* redis.keys('bubble:*') answers the startup check: lines 245-253
SeedKeys ==
    /\ ~crashed
    /\ AtHead(SeedCmd(0)) /\ seedRun[0].pc = "keys"
    /\ LET n == Cardinality(DOMAIN bubbleKeys) IN
       IF StartupSkips(n)
       THEN /\ seedRun' = [seedRun EXCEPT ![0].pc = "done"]
            /\ timerOn' = TRUE
            /\ Answered
            /\ UNCHANGED plants
       ELSE /\ BeginPlant(0, TRUE, n)
            /\ UNCHANGED timerOn
    /\ UNCHANGED <<storeVars, sub, nextSub, conn, connectedUsers, peakUsers, variant,
                   crashed, afterPlant, envVars, logVars, sentVars, feedVars, adminVars>>

\* redis.keys('bubble:*') answers the timer check: lines 254-257
TimerKeys(r) ==
    /\ ~crashed
    /\ r > 0 /\ AtHead(SeedCmd(r)) /\ seedRun[r].pc = "keys"
    /\ LET n == Cardinality(DOMAIN bubbleKeys) IN
       IF TimerPlants(n)
       THEN BeginPlant(r, FALSE, n)
       ELSE /\ seedRun' = [seedRun EXCEPT ![r].pc = "done"]
            /\ Answered
            /\ UNCHANGED plants
    /\ UNCHANGED <<storeVars, sub, nextSub, conn, connectedUsers, peakUsers, variant,
                   timerOn, crashed, afterPlant, envVars, logVars, sentVars, feedVars, adminVars>>

\* redis.setEx('bubble:' + id, ttl, ...) of plantBatch is executed and the
\* seed is broadcast: lines 286-292; after the last one of the startup batch
\* seedMessages goes on to setInterval
PlantSetEx(r) ==
    /\ ~crashed
    /\ AtHead(SeedCmd(r)) /\ seedRun[r].pc = "plant"
    /\ \E ttl \in SeedTtls :
          LET id == SeedId(now + ttl) IN
          /\ bubbleKeys' = (id :> [val |-> JsonStringify(SeedBubble(id)),
                                   exp |-> now + ttl]) @@ bubbleKeys
          /\ IoEmitNew(id)
    /\ IF seedRun[r].left > 1
       THEN /\ seedRun' = [seedRun EXCEPT ![r].left = @ - 1]
            /\ Reissue(SeedCmd(r))
            /\ UNCHANGED <<timerOn, afterPlant>>
       ELSE /\ seedRun' = [seedRun EXCEPT ![r] = [IdleRun EXCEPT !.pc = "done"]]
            /\ Answered
            /\ timerOn' = (timerOn \/ r = 0)
            /\ afterPlant' = afterPlant \cup
                  {[read |-> seedRun[r].read, size |-> seedRun[r].size,
                    live |-> Cardinality(DOMAIN bubbleKeys'), clean |-> seedRun[r].clean]}
    /\ UNCHANGED <<cooldownKeys, history, totalMessages, daily, peakStored, sub, nextSub,
                   conn, connectedUsers, peakUsers, variant, crashed, plants, envVars,
                   logVars, broadcastLog, recvExisting, feedVars, adminVars>>

\* a store call of seedMessages is rejected: the catch of lines 259-261, and
\* setInterval is never reached
SeedFail ==
    /\ ~crashed
    /\ AtHead(SeedCmd(0)) /\ seedRun[0].pc \in {"keys", "plant"}
    /\ fails < MaxFails
    /\ fails' = fails + 1
    /\ seedRun' = [seedRun EXCEPT ![0] = [IdleRun EXCEPT !.pc = "done"]]
    /\ Answered
    /\ UNCHANGED <<storeVars, sub, nextSub, conn, connectedUsers, peakUsers, variant,
                   timerOn, crashed, plants, afterPlant, now, ms, day, logVars, sentVars, feedVars, adminVars>>

\* a store call of a timer callback is rejected: part_000 catches it (lines
\* 282-284), index.js has no try in the callback and the rejection of the
\* async callback is left unhandled
TimerFail(r) ==
    /\ ~crashed
    /\ r > 0 /\ AtHead(SeedCmd(r)) /\ seedRun[r].pc \in {"keys", "plant"}
    /\ fails < MaxFails
    /\ fails' = fails + 1
    /\ seedRun' = [seedRun EXCEPT ![r] = [IdleRun EXCEPT !.pc = "done"]]
    /\ crashed' = (variant = "index")
    /\ Answered
    /\ UNCHANGED <<storeVars, sub, nextSub, conn, connectedUsers, peakUsers, variant,
                   timerOn, plants, afterPlant, now, ms, day, logVars, sentVars, feedVars, adminVars>>

(***************************************************************************)
(* Time                                                                    *)
(***************************************************************************)
\* the clock advances; the store drops the keys whose TTL has run out
TickBy(secs) ==
    /\ now + secs <= MaxTicks * TickSeconds
    /\ now' = now + secs
    /\ bubbleKeys' = [id \in {i \in DOMAIN bubbleKeys : bubbleKeys[i].exp > now'} |-> bubbleKeys[id]]
    /\ cooldownKeys' = [ip \in IPs |-> IF cooldownKeys[ip] > now' THEN cooldownKeys[ip] ELSE 0]
    /\ daily' = [d \in {e \in DOMAIN daily : daily[e].exp = -1 \/ daily[e].exp > now'} |-> daily[d]]
    /\ conn' = [v \in Sockets |->
                 IF conn[v].pc \in {"keys", "get", "ttl"} /\ DOMAIN bubbleKeys' # DOMAIN bubbleKeys
                 THEN [conn[v] EXCEPT !.disturbed = TRUE] ELSE conn[v]]
    /\ seedRun' = [r \in Runs |->
                    IF seedRun[r].pc = "plant" /\ DOMAIN bubbleKeys' # DOMAIN bubbleKeys
                    THEN [seedRun[r] EXCEPT !.clean = FALSE] ELSE seedRun[r]]
    /\ UNCHANGED <<history, totalMessages, peakStored, redisQueue, sub, nextSub,
                   connectedUsers, peakUsers, ms, day, fails, logVars, sentVars,
                   variant, timerOn, crashed, plants, afterPlant, feedVars, adminVars>>

Tick == TickBy(TickSeconds)

\* midnight passes: new Date() of getTodayKey (line 88) is on the next day
Midnight ==
    /\ day <= MaxDays
    /\ day' = day + 1
    /\ UNCHANGED <<storeVars, procVars, seedVars, now, ms, fails, logVars, sentVars, feedVars, adminVars>>

\* the clock advances by as much as all ticks together
LongTick == TickBy(MaxTicks * TickSeconds)

\* the server process is restarted: lines 18-26 run again.  Its memory, its
\* sockets, its handlers in flight and its unsent commands are gone; the
\* store keeps its contents.
Restart ==
    /\ connectedUsers' = 0
    /\ peakUsers' = 0
    /\ conn' = [v \in Sockets |-> NewConn]
    /\ redisQueue' = <<>>
    /\ sub' = [h \in Subs |->
                IF sub[h].pc \in {"idle", "done"} THEN sub[h] ELSE Returned(h, "killed", 0)]
    /\ adminRoom' = {}
    /\ seedRun' = [r \in Runs |-> IdleRun]
    /\ timerOn' = FALSE
    /\ crashed' = FALSE
    /\ UNCHANGED <<storeVars, nextSub, variant, plants, afterPlant, envVars, logVars, sentVars,
                   replies, recvAdmin, adminVars>>

(***************************************************************************)
(* Specifications                                                          *)
(***************************************************************************)
EmptyStore ==
    /\ bubbleKeys = <<>>
    /\ cooldownKeys = [ip \in IPs |-> 0]
    /\ history = <<>>
    /\ totalMessages = 0
    /\ daily = <<>>

Quiet ==
    /\ redisQueue = <<>>
    /\ sub = [h \in Subs |-> IdleSub]
    /\ nextSub = 0
    /\ now = 0
    /\ ms = 0
    /\ day = 1
    /\ fails = 0
    /\ acceptLog = <<>>
    /\ pushLog = <<>>
    /\ broadcastLog = <<>>
    /\ recvNew = [v \in Sockets |-> {}]
    /\ recvExisting = [v \in Sockets |-> {}]
    /\ replies = {}
    /\ adminRoom = {}
    /\ recvAdmin = [v \in Sockets |-> {}]
    /\ joinLog = [v \in Sockets |-> <<>>]
    /\ joined = [v \in Sockets |-> <<>>]
    /\ recvUserCount = [v \in Sockets |-> {}]
    /\ seedRun = [r \in Runs |-> IdleRun]
    /\ timerOn = FALSE
    /\ crashed = FALSE
    /\ plants = {}
    /\ afterPlant = {}

\* every socket has connected to an empty map and finished its replay
Init ==
    /\ EmptyStore
    /\ Quiet
    /\ variant = "index"
    /\ peakStored = NumSockets
    /\ conn = [v \in Sockets |-> ReadyConn]
    /\ connectedUsers = NumSockets
    /\ peakUsers = NumSockets

\* the process has started and nobody has connected
InitReplay ==
    /\ EmptyStore
    /\ Quiet
    /\ variant = "index"
    /\ peakStored = 0
    /\ conn = [v \in Sockets |-> NewConn]
    /\ connectedUsers = 0
    /\ peakUsers = 0

SubWrite(h) ==
    \/ SubSetExBubble(h)
    \/ SubSetExCooldown(h)
    \/ SubRPush(h)
    \/ SubLTrim(h)
    \/ SubIncrTotal(h)
    \/ SubIncrToday(h)
    \/ SubExpire(h)

\* submissions racing at one instant of the store clock, store calls failing
Next ==
    \/ \E v \in Sockets, data \in Candidates : Submit(v, data)
    \/ \E h \in Subs : SubGet(h)
    \/ \E h \in Subs : SubTtl(h)
    \/ \E h \in Subs : SubWrite(h)
    \/ \E h \in Subs : SubFail(h)

Spec == Init /\ [][Next]_vars

\* submissions while the clock advances and keys expire
NextClock ==
    \/ \E v \in Sockets, data \in ClockCandidates : Submit(v, data)
    \/ \E h \in Subs : SubGetSameMs(h)
    \/ \E h \in Subs : SubTtl(h)
    \/ \E h \in Subs : SubWrite(h)
    \/ Tick

SpecClock == Init /\ [][NextClock]_vars

\* connections, their replays and disconnections, beside submissions
NextReplay ==
    \/ \E v \in Sockets : Connect(v)
    \/ PeakSet
    \/ PeakFail
    \/ \E v \in Sockets : ConnKeys(v)
    \/ \E v \in Sockets : ConnGet(v)
    \/ \E v \in Sockets : ConnTtl(v)
    \/ \E v \in Sockets : ConnFail(v)
    \/ \E v \in Sockets : Disconnect(v)
    \/ \E v \in Sockets, data \in ReplayCandidates : SubmitUpTo(v, data, MaxReplaySubmits)
    \/ \E v \in Sockets : SubmitEarly(v, MaxReplaySubmits)
    \/ \E h \in Subs : SubGet(h)
    \/ \E h \in Subs : SubTtl(h)
    \/ \E h \in Subs : SubWrite(h)
    \/ LongTick

SpecReplay == InitReplay /\ [][NextReplay]_vars

\* connections and disconnections over restarts of the process
NextRestart ==
    \/ \E v \in Sockets : Connect(v)
    \/ PeakSet
    \/ PeakFail
    \/ \E v \in Sockets : ConnKeys(v)
    \/ \E v \in Sockets : Disconnect(v)
    \/ Restart

SpecRestart == InitReplay /\ [][NextRestart]_vars

\* every socket has connected to an empty map; the process runs either
\* revision of the seed scheduler
InitAdmin ==
    /\ EmptyStore
    /\ Quiet
    /\ variant \in Variants
    /\ peakStored = NumSockets
    /\ conn = [v \in Sockets |-> ReadyConn]
    /\ connectedUsers = NumSockets
    /\ peakUsers = NumSockets

\* submissions, with viewers joining the admin room
NextFeed ==
    \/ \E v \in Sockets : AdminJoin(v)
    \/ \E v \in Sockets, data \in ClockCandidates : Submit(v, data)
    \/ \E h \in Subs : SubGetSameMs(h)
    \/ \E h \in Subs : SubTtl(h)
    \/ \E h \in Subs : SubWrite(h)

SpecFeed == Init /\ [][NextFeed]_vars

\* the startup seeds, with viewers joining the admin room
NextAdmin ==
    \/ \E v \in Sockets : AdminJoin(v)
    \/ SeedStart
    \/ SeedKeys
    \/ \E r \in Runs : PlantSetEx(r)

SpecAdmin == InitAdmin /\ [][NextAdmin]_vars

\* submissions around midnight
NextDay ==
    \/ \E v \in Sockets, data \in ReplayCandidates : Submit(v, data)
    \/ \E h \in Subs : SubGetSameMs(h)
    \/ \E h \in Subs : SubTtl(h)
    \/ \E h \in Subs : SubWrite(h)
    \/ Midnight

SpecDay == Init /\ [][NextDay]_vars

\* viewers connect, send admin:join with a right or a wrong password and
\* leave, beside submissions
NextJoin ==
    \/ \E v \in Sockets : Connect(v)
    \/ PeakSet
    \/ \E v \in Sockets : ConnKeys(v)
    \/ \E v \in Sockets : ConnGet(v)
    \/ \E v \in Sockets : ConnTtl(v)
    \/ \E v \in Sockets : Disconnect(v)
    \/ \E v \in Sockets, password \in Passwords : AdminJoinUpTo(v, password, MaxJoins)
    \/ \E v \in Sockets, password \in Passwords : AdminJoinEarly(v, password, MaxJoins)
    \/ \E v \in Sockets, data \in ReplayCandidates : SubmitUpTo(v, data, MaxJoinSubmits)
    \/ \E h \in Subs : SubGetSameMs(h)
    \/ \E h \in Subs : SubWrite(h)

SpecJoin == InitReplay /\ [][NextJoin]_vars

\* nobody has connected; the store holds up to MaxStale live bubble:* keys,
\* each with a bubble or with a value that is not JSON
InitStale ==
    /\ Quiet
    /\ \E k \in 0..MaxStale : \E bad \in SUBSET (1..k) :
          bubbleKeys = [id \in {<<-1, i>> : i \in 1..k} |->
                          [val |-> IF id[2] \in bad THEN Garbled
                                   ELSE JsonStringify(SeedBubble(id)),
                           exp |-> BUBBLE_TTL]]
    /\ cooldownKeys = [ip \in IPs |-> 0]
    /\ history = <<>>
    /\ totalMessages = 0
    /\ daily = <<>>
    /\ variant = "index"
    /\ peakStored = 0
    /\ conn = [v \in Sockets |-> NewConn]
    /\ connectedUsers = 0
    /\ peakUsers = 0

\* connections and their replays
NextStale ==
    \/ \E v \in Sockets : Connect(v)
    \/ PeakSet
    \/ \E v \in Sockets : ConnKeys(v)
    \/ \E v \in Sockets : ConnGet(v)
    \/ \E v \in Sockets : ConnTtl(v)
    \/ \E v \in Sockets : Disconnect(v)

SpecStale == InitStale /\ [][NextStale]_vars

\* a bubble an earlier run of the process left in the store
OldBubble(i) == [val |-> JsonStringify(SeedBubble(<<-1, i>>)), exp |-> TickSeconds]

\* the process starts on a store that holds up to MaxOld live bubbles
InitSeed ==
    /\ Quiet
    /\ \E k \in 0..MaxOld : bubbleKeys = [id \in {<<-1, i>> : i \in 1..k} |-> OldBubble(id[2])]
    /\ cooldownKeys = [ip \in IPs |-> 0]
    /\ history = <<>>
    /\ totalMessages = 0
    /\ daily = <<>>
    /\ variant \in Variants
    /\ peakStored = 0
    /\ conn = [v \in Sockets |-> NewConn]
    /\ connectedUsers = 0
    /\ peakUsers = 0

NextSeed ==
    \/ SeedStart
    \/ SeedKeys
    \/ SeedFail
    \/ \E r \in Runs : TimerFire(r)
    \/ \E r \in Runs : TimerKeys(r)
    \/ \E r \in Runs : TimerFail(r)
    \/ \E r \in Runs : PlantSetEx(r)
    \/ LongTick

SpecSeed == InitSeed /\ [][NextSeed]_vars

(***************************************************************************)
(* Properties                                                              *)
(***************************************************************************)
RECURSIVE IsSubseq(_, _)
\* the entries of a occur in b, in the same order
IsSubseq(a, b) ==
    IF a = <<>> THEN TRUE
    ELSE IF b = <<>> THEN FALSE
    ELSE IF Head(a) = Head(b) THEN IsSubseq(Tail(a), Tail(b))
    ELSE IsSubseq(a, Tail(b))

\* a is the end of b
IsSuffix(a, b) ==
    /\ Len(a) <= Len(b)
    /\ a = SubSeq(b, Len(b) - Len(a) + 1, Len(b))

Count(seq, e) == Cardinality({i \in DOMAIN seq : seq[i] = e})

Min(a, b) == IF a <= b THEN a ELSE b

\* the source a bubble came from: its id starts with the socket's id
SourceOf(b) == UserIP(b.id[1])

\* the stored form of a bubble that was broadcast
AsStored(e) ==
    JsonStringify([id |-> e.id, name |-> e.name, text |-> e.text, x |-> e.x, y |-> e.y,
                   type |-> e.type, createdAt |-> e.createdAt])

\* two bubbles of one source were written less than COOLDOWN_TTL seconds apart
AcceptedTwiceInWindow ==
    \E i, j \in DOMAIN acceptLog :
        /\ i < j
        /\ SourceOf(acceptLog[i]) = SourceOf(acceptLog[j])
        /\ acceptLog[j].createdAt < acceptLog[i].createdAt + COOLDOWN_TTL * 1000

\* the value is a number inside [lo, hi]
NumberIn(v, lo, hi) == v.k = "num" /\ lo <= v.n /\ v.n <= hi

\* both coordinates convert to numbers inside the geographic bounds
InRange(data) ==
    /\ NumberIn(ToNumber(data.x), LAT_MIN, LAT_MAX)
    /\ NumberIn(ToNumber(data.y), LNG_MIN, LNG_MAX)

\* a coordinate converts to a number outside the geographic bounds
OutOfRange(data) ==
    LET lat == ToNumber(data.x)
        lng == ToNumber(data.y)
    IN  \/ lat.k = "num" /\ (lat.n < LAT_MIN \/ lat.n > LAT_MAX)
        \/ lng.k = "num" /\ (lng.n < LNG_MIN \/ lng.n > LNG_MAX)

\* no live cooldown marker for the source of handler h
NoMarker(h) == cooldownKeys[UserIP(sub[h].sock)] <= now

\* C1: once a bubble of a source has been written, no other bubble of that
\* source is written before COOLDOWN_TTL seconds have passed, whatever the
\* interleaving of the handlers.  Two bubble:create events of one source in
\* flight together both read a missing marker: the property does not hold.
C1_OnePerWindow == ~AcceptedTwiceInWindow

\* C2: a step that rejects a submission with 'Missing fields.' or 'Invalid
\* coordinates.' leaves every cooldown marker as it was, and a submission with
\* all fields and coordinates in range whose source has no live marker when
\* its redis.get is answered goes on to write its bubble.
C2_RejectionLeavesCooldown ==
    [][ /\ \A h \in Subs :
             sub[h].outcome = "none" /\ sub'[h].outcome \in {"missing", "coords"}
                => cooldownKeys' = cooldownKeys
        /\ \A h \in Subs :
             /\ AtHead(SubCmd(h)) /\ sub[h].pc = "get" /\ sub'[h] # sub[h]
             /\ NoMarker(h) /\ InRange(sub[h].data)
             => sub'[h].pc = "setBubble" ]_vars

\* C2 happens: a source whose earlier submissions were all rejected for their
\* fields or coordinates has had its next submission accepted and broadcast
C2_Witness ==
    \E h1, h2 \in Subs :
        /\ h1 < h2
        /\ sub[h2].outcome = "new"
        /\ UserIP(sub[h1].sock) = UserIP(sub[h2].sock)
        /\ \A h \in 1..(h2 - 1) :
              UserIP(sub[h].sock) = UserIP(sub[h2].sock)
                 => sub[h].outcome \in {"missing", "coords"}

C4_HistoryBounded == Len(history) <= HISTORY_MAX

\* C9: every bubble written to the store or broadcast as bubble:new has x in
\* [LAT_MIN, LAT_MAX] and y in [LNG_MIN, LNG_MAX].  Number('abc') is NaN, which
\* fails every comparison of line 147: the property does not hold.
C9_CoordinatesInBounds ==
    /\ \A i \in DOMAIN acceptLog :
          /\ NumberIn(acceptLog[i].x, LAT_MIN, LAT_MAX)
          /\ NumberIn(acceptLog[i].y, LNG_MIN, LNG_MAX)
    /\ \A i \in DOMAIN broadcastLog :
          /\ NumberIn(broadcastLog[i].x, LAT_MIN, LAT_MAX)
          /\ NumberIn(broadcastLog[i].y, LNG_MIN, LNG_MAX)

\* C10: when redis.get answers a submission that has all its fields, whose
\* source has no live marker and whose x or y is a number outside the bounds,
\* the handler answers 'Invalid coordinates.' and returns, and no key, list,
\* counter or marker of the store changes and nothing is broadcast.
C10_InvalidCoordinatesNoWrite ==
    [][ \A h \in Subs :
          /\ AtHead(SubCmd(h)) /\ sub[h].pc = "get" /\ sub'[h] # sub[h]
          /\ fails' = fails
          /\ ~MissingFields(sub[h].data)
          /\ NoMarker(h) /\ OutOfRange(sub[h].data)
          => /\ sub'[h].pc = "done" /\ sub'[h].outcome = "coords"
             /\ UNCHANGED <<storeVars, logVars, sentVars>> ]_vars

\* C10 happens: submissions with a latitude and with a longitude outside the
\* bounds were answered 'Invalid coordinates.'
C10_Witness ==
    \E h \in Subs : sub[h].outcome = "coords"


\* the ids of the bubbles socket v received as bubble:existing
ExistingIds(v) == {e.id : e \in recvExisting[v]}

\* the replay of socket v ran to its end, on an open socket, with no store
\* call rejected and no bubble expiring on the way
CleanReplay(v) == conn[v].pc = "ready" /\ conn[v].open /\ ~conn[v].disturbed

\* the threshold of the startup check of the revision that runs
StartThreshold == IF variant = "index" THEN START_MIN ELSE START_MIN_B

\* C5: every bubble:existing a viewer received carries remainingMs > 0.  A
\* key that expires between the redis.get of line 108 and the redis.ttl of
\* line 111 gives ttl -2: the property does not hold.
C5_RemainingPositive ==
    \A v \in Sockets : \A e \in recvExisting[v] : e.remainingMs > 0

\* C6 as stated: a viewer whose replay met no expiry and no failure has
\* received bubble:existing for exactly the bubbles that were live when it
\* connected.
C6_Original ==
    \A v \in Sockets : CleanReplay(v) => ExistingIds(v) = conn[v].atConnect

\* C6, amended: a viewer whose replay met no expiry and no failure has
\* received bubble:existing for exactly the bubbles that were live when its
\* redis.keys call of line 106 was executed, and a bubble:existing event
\* reaches no socket but the one whose replay emitted it.
C6_ReplayExactAndPrivate ==
    /\ [](\A v \in Sockets : CleanReplay(v) => ExistingIds(v) = conn[v].keys)
    /\ [][ \A w \in Sockets :
             recvExisting'[w] # recvExisting[w]
                => AtHead(ConnCmd(w)) /\ conn[w].pc = "ttl" ]_vars

\* C6 happens: a viewer connected to a store with live bubbles and received
\* them all, while another connected socket received none of them
C6_Witness ==
    \E v, w \in Sockets :
        /\ v # w
        /\ CleanReplay(v) /\ conn[v].keys # {} /\ ExistingIds(v) = conn[v].keys
        /\ conn[v].atConnect = conn[v].keys
        /\ conn[w].open /\ conn[w].pc = "ready" /\ recvExisting[w] = {}

\* C7 as stated: no call of plantBatch, from the startup check or from the
\* timer, follows a read of LOW_WATER keys or more.
C7_Original == \A p \in plants : p.read < LOW_WATER

\* C7, amended: the timer check never calls plantBatch after reading
\* LOW_WATER keys or more, and the startup check never calls it after reading
\* as many keys as its own threshold (START_MIN in index.js, START_MIN_B in
\* part_000) or more.
C7_PlantsBelowThreshold ==
    \A p \in plants :
        /\ p.by = "timer" => p.read < LOW_WATER
        /\ p.by = "startup" => p.read < StartThreshold

\* C7 happens: the startup check planted after reading LOW_WATER keys or
\* more, and the timer check planted after reading fewer
C7_Witness ==
    /\ \E p \in plants : p.by = "startup" /\ p.read >= LOW_WATER
    /\ \E p \in plants : p.by = "timer"

\* C8: after a call of plantBatch that met no failure (and during which no
\* key expired), more than LOW_WATER bubble:* keys are live.  The top-up batch
\* of part_000 has 5 to 8 seeds: the property does not hold.
C8_AboveMarkAfterPlant ==
    \A p \in afterPlant : p.clean /\ p.read < LOW_WATER => p.live > LOW_WATER


\* handler h was answered bubble:cooldown
OnCooldown(h) == sub[h].pc = "done" /\ sub[h].outcome = "cooldown"

\* between the events h1 and h2 their source sent nothing but submissions
\* that were rejected: none was accepted and none is still in flight
SameWindow(h1, h2) ==
    /\ h1 < h2
    /\ UserIP(sub[h1].sock) = UserIP(sub[h2].sock)
    /\ \A h \in (h1 + 1)..(h2 - 1) :
          UserIP(sub[h].sock) = UserIP(sub[h1].sock)
             => sub[h].pc = "done" /\ sub[h].outcome \in {"missing", "coords", "cooldown"}

\* C11: within one cooldown window of a source the remainingSeconds of its
\* successive bubble:cooldown answers never increase, and no answer reports
\* more than COOLDOWN_TTL seconds.
C11_RemainingNonIncreasing ==
    /\ \A h \in Subs : OnCooldown(h) => sub[h].remaining <= COOLDOWN_TTL
    /\ \A h1, h2 \in Subs :
          OnCooldown(h1) /\ OnCooldown(h2) /\ SameWindow(h1, h2)
             => sub[h2].remaining <= sub[h1].remaining

\* C11 happens: one source was answered bubble:cooldown twice in one window,
\* the second time with fewer seconds remaining
C11_Witness ==
    \E h1, h2 \in Subs :
        /\ OnCooldown(h1) /\ OnCooldown(h2) /\ SameWindow(h1, h2)
        /\ sub[h2].remaining < sub[h1].remaining
        /\ sub[h2].remaining > 0


\* the store calls of a submission that follow its bubble and its marker:
\* the history append and trim and the two counter increments
Bookkeeping == {"rPush", "lTrim", "incrTotal", "incrToday"}

\* C12: a handler whose bubble is written and that awaits one of its
\* bookkeeping calls is never answered bubble:error, and it returns only
\* after broadcasting its bubble.  A rejected bookkeeping call lands in the
\* catch of line 182, which sends bubble:error and skips the broadcast of
\* line 176: the property does not hold.
C12_BookkeepingFailureStillLive ==
    [][ \A h \in Subs :
          sub[h].pc \in Bookkeeping
             => /\ \A r \in replies' \ replies : ~(r.h = h /\ r.ev = "bubble:error")
                /\ sub'[h].pc = "done" => sub'[h].outcome = "new" ]_vars


\* the viewers that are connected
Connected == {v \in Sockets : conn[v].open}

\* C13: connectedUsers is the number of connected viewers.  The disconnect
\* handler is registered at line 188, after the awaited replay: a socket
\* that closes during its replay is never subtracted, so the property does
\* not hold.
C13_CountIsConnected == connectedUsers = Cardinality(Connected)


\* C14: the stored stats:peak_users never decreases.  peakUsers starts at 0
\* in every process (line 26) and is never read back from the store: the
\* first connection after a restart writes '1' over a larger stored peak, so
\* the property does not hold.
C14_PeakNeverDecreases == [][peakStored' >= peakStored]_vars


\* the response events handler h has caused for its viewer: the events it
\* sent with socket.emit, and the bubble:new of its broadcast
Responses(h) ==
    Cardinality({r \in replies : r.h = h}) + (IF sub[h].outcome = "new" THEN 1 ELSE 0)

\* C15: every bubble:create event gets exactly one response, stated for the
\* events that nothing works on any more.  An event that arrives during the
\* replay of its socket finds no listener (line 130 runs after the replay)
\* and is never answered: the property does not hold.
C15_EveryEventAnswered ==
    \A h \in 1..nextSub : sub[h].pc = "done" => Responses(h) = 1


\* the outcomes of a submission that failed validation
Rejections == {"missing", "cooldown", "coords"}

\* C16: a step in which a submission is rejected for its fields, for the
\* cooldown of its source or for its coordinates sends exactly one event, to
\* the socket that submitted, and delivers nothing to any socket as
\* bubble:new, bubble:existing or admin:newMessage.
C16_RejectionToSubmitterOnly ==
    [][ \A h \in Subs :
          sub[h].outcome = "none" /\ sub'[h].outcome \in Rejections
             => /\ \E r \in replies' \ replies :
                      /\ replies' \ replies = {r}
                      /\ r.h = h /\ r.to = sub'[h].sock
                /\ UNCHANGED <<broadcastLog, recvNew, recvExisting, recvAdmin>> ]_vars

\* C16 happens: with a viewer in the admin room, a submission of another
\* viewer was rejected for a missing field or for its coordinates, and one
\* was rejected for the cooldown
C16_Witness ==
    /\ adminRoom # {}
    /\ \E h \in Subs : sub[h].outcome \in {"missing", "coords"} /\ sub[h].sock \notin adminRoom
    /\ \E h \in Subs : sub[h].outcome = "cooldown"
    /\ \A h \in Subs : sub[h].outcome \in Rejections => Responses(h) = 1

\* the bubbles some socket receives as bubble:new in this step
NewlyBroadcast == UNION {recvNew'[v] \ recvNew[v] : v \in Sockets}

\* C17: whenever a bubble is broadcast as bubble:new, every socket in the
\* admin room receives it as admin:newMessage.  plantBatch broadcasts its
\* seeds with io.emit('bubble:new') alone (index.js 290, part_000 316): the
\* property does not hold.
C17_BroadcastReachesAdmins ==
    [][ \A a \in adminRoom : conn[a].open => NewlyBroadcast \subseteq recvAdmin'[a] ]_vars


\* a live cooldown marker for the source of handler h
LiveMarker(h) == cooldownKeys[UserIP(sub[h].sock)] > now

\* C18: the checks run in the order fields, cooldown, coordinates.  An event
\* reaches the cooldown check only with all its fields, and is answered
\* 'Missing fields.' otherwise; a submission whose redis.get finds a live
\* marker goes on to bubble:cooldown whatever its coordinates are, and is
\* sent no bubble:error.
C18_ValidationOrder ==
    [][ /\ \A h \in Subs :
             sub[h].pc = "idle" /\ sub'[h] # sub[h]
                => \/ sub'[h].pc = "done" /\ sub'[h].outcome = "missing"
                   \/ sub'[h].pc = "get" /\ ~MissingFields(sub'[h].data)
        /\ \A h \in Subs :
             /\ AtHead(SubCmd(h)) /\ sub[h].pc = "get" /\ sub'[h] # sub[h]
             /\ LiveMarker(h)
             => sub'[h].pc = "ttl" /\ replies' = replies
        /\ \A h \in Subs :
             sub[h].pc = "ttl" /\ sub'[h] # sub[h] => sub'[h].outcome = "cooldown" ]_vars

\* C18 happens: a submission with a latitude out of range found its source
\* on cooldown and is about to be answered bubble:cooldown, and an event with
\* a missing field of a source on cooldown was answered 'Missing fields.'
C18_Witness ==
    /\ \E h \in Subs : sub[h].pc = "ttl" /\ OutOfRange(sub[h].data)
    /\ \E h \in Subs : sub[h].outcome = "missing" /\ LiveMarker(h)


\* the keys of the store that hold a bubble
DecodableKeys == {id \in DOMAIN bubbleKeys : Decodes(bubbleKeys[id].val)}

\* C19: a viewer that stayed connected through its replay has received
\* bubble:existing for every live key it enumerated whose value decodes.
\* JSON.parse of line 110 throws inside the one try of lines 105-118 and the
\* catch ends the whole loop: the property does not hold.
C19_OnlyBadEntrySkipped ==
    \A v \in Sockets :
        conn[v].pc = "ready" /\ conn[v].open
           => (conn[v].keys \cap DecodableKeys) \subseteq ExistingIds(v)


\* C20: a daily counter key has no TTL only while a handler that incremented
\* it still has its redis.expire outstanding, and a TTL of a daily counter
\* is at most DAILY_TTL seconds.  Lines 171 and 173 call getTodayKey() each
\* for itself: when midnight passes between the two calls, expire names the
\* key of the new day and the key that was incremented keeps no TTL, so the
\* property does not hold.
C20_DailyKeysExpire ==
    \A k \in DOMAIN daily :
        /\ daily[k].exp = -1 => \E h \in Subs : sub[h].pc = "expire"
        /\ daily[k].exp <= now + DAILY_TTL


\* C21: the redis.setEx of line 162 never writes over a live bubble:<id> key,
\* so that no two accepted submissions have the same id.  The id of line 153
\* is socket.id + '-' + Date.now(): two events of one socket that both pass
\* the cooldown check in one millisecond get the same id, and the second
\* setEx replaces the first bubble, so the property does not hold.
C21_NoLiveBubbleOverwritten ==
    [][ \A h \in Subs :
          AtHead(SubCmd(h)) /\ sub[h].pc = "setBubble" /\ sub'[h].pc = "setCooldown"
             => ~(sub[h].bubble.id \in DOMAIN bubbleKeys
                  /\ bubbleKeys[sub[h].bubble.id].exp > now) ]_vars



\* C22: once a call of plantBatch has written its seeds, history:messages
\* holds a copy of each of them (of the last HISTORY_MAX at least) and
\* stats:total_messages and the counter of the day have counted each of them.
\* plantBatch calls redis.setEx and io.emit and nothing else (index.js
\* 284-290, part_000 313-316): the property does not hold.
C22_SeedsRecordedLikeSubmissions ==
    \A p \in afterPlant :
        /\ Len(history) >= Min(p.size, HISTORY_MAX)
        /\ totalMessages >= p.size
        /\ GetTodayKey \in DOMAIN daily /\ daily[GetTodayKey].n >= p.size



\* C23: no rejected store call leaves the rejection of an async callback
\* unhandled: the process never crashes.  The setInterval callback of
\* index.js (lines 253-258) awaits redis.keys and plantBatch outside any
\* try: a store call rejected there is an unhandled rejection, so the
\* property does not hold (part_000 wraps the callback's body in a try).
C23_NoUnhandledRejection == ~crashed



\* socket v has sent admin:join with the right password
SentRightPassword(v) == \E i \in DOMAIN joinLog[v] : joinLog[v][i] = ADMIN_PASSWORD

\* the success flags the admin:join events of socket v call for
FlagsDue(v) == [i \in DOMAIN joinLog[v] |-> joinLog[v][i] = ADMIN_PASSWORD]

\* C24: a socket has received admin:newMessage or admin:userCount only if it
\* sent admin:join with the right password before, and each of its admin:join
\* events has been answered with admin:joined, the flag telling whether the
\* password matched.  The listener of line 121 is registered after the
\* awaited replay: an admin:join that arrives during the replay is never
\* answered, so the property does not hold.
C24_AdminFeedOnlyForJoined ==
    \A v \in Sockets :
        /\ recvAdmin[v] # {} \/ recvUserCount[v] # {} => SentRightPassword(v)
        /\ joined[v] = FlagsDue(v)



\* C25: no viewer receives both bubble:existing and bubble:new for one bubble
\* id.  A socket is sent every io.emit from the moment it connects, while its
\* replay still awaits the store: a bubble written at line 162 (or planted at
\* index.js 286) before the replay's redis.keys is executed and broadcast
\* after the socket connected reaches the viewer both ways, so the property
\* does not hold.
C25_ToldAtMostOnce ==
    \A v \in Sockets : ExistingIds(v) \cap recvNew[v] = {}



\* C26: once seedMessages has returned, the periodic timer is installed,
\* whether or not its startup check or its initial batch met a rejected
\* store call, so that later ticks can top the map up.  setInterval (index.js
\* 253, part_000 276) sits inside the try, after the awaited redis.keys and
\* plantBatch: a rejection there jumps to the catch and the timer is never
\* installed, so the property does not hold.
C26_TimerInstalledAfterStartup == seedRun[0].pc = "done" => timerOn

=============================================================================
